---------------------------- MODULE Spec2Model ----------------------------
(***************************************************************************)
(* Bulk Tag Manager (src/main.ts): the tag-segment transformer, the bulk  *)
(* normalization and rename drivers, settings loading with the legacy     *)
(* snakeCase migration, and the tag-list generator.                       *)
(*                                                                         *)
(* A JavaScript string is a sequence of characters; a character is a      *)
(* one-element TLA+ string, except the two non-ASCII code points the      *)
(* model needs, which are written "U+0130" (LATIN CAPITAL LETTER I WITH   *)
(* DOT ABOVE, category Lu) and "U+0307" (COMBINING DOT ABOVE, category    *)
(* Mn).                                                                   *)
(***************************************************************************)
EXTENDS Integers, Sequences, FiniteSets, TLC

VARIABLES
    settings,      \* this.settings of TagLowercasePlugin
    persisted,     \* the host's data.json blob (loadData / saveData)
    docs,          \* the vault's markdown files: frontmatter + raw text
    vault0,        \* the vault's files as they were before any operation
    tagCache,      \* app.metadataCache.getTags(): null, or its keys in key order
    locale,        \* the host's collation, which localeCompare follows
    listing,       \* the file "All Tags.md": whether it exists, and its lines
    notices,       \* every Notice shown so far
    rmwLog,        \* every processFrontMatter / vault.process call made
    run,           \* the async operation in flight and its locals
    tagContent,    \* argument of a direct convertTagContent call
    tagOut,        \* results of direct convertTagContent calls
    segOut         \* results of repeated transformSegment calls

vars == <<settings, persisted, docs, vault0, tagCache, locale, listing, notices, rmwLog,
          run, tagContent, tagOut, segOut>>

-----------------------------------------------------------------------------
(* Bounds *)

MaxTagLen == 3

MaxTextLen == 4

MaxMetaLen == 3

MaxDocs == 3

\* Files of the vault of a run that overlaps settings changes
MaxLiveDocs == 2

\* Settings changes that the steps of one bulk run may see
MaxChanges == 1

\* Tags known to the metadata cache
MaxListTags == 3

-----------------------------------------------------------------------------
(* Characters and their Unicode properties *)

\* \p{L}
IsLetter(c) == c \in {"a", "A", "b", "B", "i", "I", "U+0130"}

\* \p{N}
IsNumber(c) == c \in {"1"}

\* \s
IsWhitespace(c) == c \in {" "}

\* [\p{L}\p{N}\-_] : what removeSpecialChars keeps
IsSegmentChar(c) == IsLetter(c) \/ IsNumber(c) \/ c = "-" \/ c = "_"

\* [\p{L}\p{N}_\-\/] : the body of an inline tag
IsTagBodyChar(c) == IsSegmentChar(c) \/ c = "/"

\* String.prototype.toLowerCase on one code point (SpecialCasing: U+0130
\* lowercases to "i" followed by U+0307)
LowerOf(c) ==
    CASE c = "A" -> <<"a">>
      [] c = "B" -> <<"b">>
      [] c = "I" -> <<"i">>
      [] c = "U+0130" -> <<"i", "U+0307">>
      [] OTHER -> <<c>>

\* String.prototype.toUpperCase on one code point
UpperOf(c) ==
    CASE c = "a" -> <<"A">>
      [] c = "b" -> <<"B">>
      [] c = "i" -> <<"I">>
      [] OTHER -> <<c>>

-----------------------------------------------------------------------------
(* String helpers *)

RECURSIVE toLowerCase(_)
toLowerCase(s) ==
    IF s = <<>> THEN <<>> ELSE LowerOf(Head(s)) \o toLowerCase(Tail(s))

RECURSIVE toUpperCase(_)
toUpperCase(s) ==
    IF s = <<>> THEN <<>> ELSE UpperOf(Head(s)) \o toUpperCase(Tail(s))

\* s.replace(/[^\p{L}\p{N}\-_]/gu, '')
StripSpecial(s) == SelectSeq(s, IsSegmentChar)

\* s.replace(/-/g, '_')
HyphenToUnderscore(s) == [k \in 1..Len(s) |-> IF s[k] = "-" THEN "_" ELSE s[k]]

\* s.replace(/_/g, '-')
UnderscoreToHyphen(s) == [k \in 1..Len(s) |-> IF s[k] = "_" THEN "-" ELSE s[k]]

\* String.prototype.split('/'): always at least one part
RECURSIVE SplitSlash(_)
SplitSlash(s) ==
    IF \A k \in 1..Len(s) : s[k] # "/" THEN <<s>>
    ELSE LET p == CHOOSE k \in 1..Len(s) :
                      s[k] = "/" /\ \A j \in 1..(k - 1) : s[j] # "/"
         IN  <<SubSeq(s, 1, p - 1)>> \o SplitSlash(SubSeq(s, p + 1, Len(s)))

\* Array.prototype.join('/')
RECURSIVE JoinSlash(_)
JoinSlash(parts) ==
    IF Len(parts) = 0 THEN <<>>
    ELSE IF Len(parts) = 1 THEN parts[1]
    ELSE parts[1] \o <<"/">> \o JoinSlash(Tail(parts))

\* String.prototype.startsWith
StartsWith(s, p) == Len(p) <= Len(s) /\ SubSeq(s, 1, Len(p)) = p

\* All strings over alphabet A of length at most n
StringsUpTo(A, n) == UNION {[1..k -> A] : k \in 0..n}

-----------------------------------------------------------------------------
(* Settings *)

CaseStrategies == {"lowercase", "uppercase", "none"}

SeparatorStrategies == {"preserve", "snake", "kebab"}

\* TagLowercaseSettings; snakeCase is the legacy key Object.assign may carry
\* over from the persisted blob ("absent" when the object has no such key)
SettingsSet ==
    [caseStrategy : CaseStrategies,
     separatorStrategy : SeparatorStrategies,
     removeSpecialChars : BOOLEAN,
     applyToNestedTags : BOOLEAN,
     snakeCase : {"absent"}]

DEFAULT_SETTINGS ==
    [caseStrategy |-> "lowercase",
     separatorStrategy |-> "preserve",
     removeSpecialChars |-> FALSE,
     applyToNestedTags |-> TRUE,
     snakeCase |-> "absent"]

-----------------------------------------------------------------------------
(* The segment transformer *)

\* s.replace('-', '_') : a string pattern replaces the first occurrence only
RECURSIVE ReplaceFirst(_, _, _)
ReplaceFirst(s, from, to) ==
    IF s = <<>> THEN <<>>
    ELSE IF Head(s) = from THEN <<to>> \o Tail(s)
    ELSE <<Head(s)>> \o ReplaceFirst(Tail(s), from, to)

\* transformSegment with the separator replaced once instead of globally
transformSegment_FirstOnly(segment, cfg) ==
    LET s1 == IF cfg.removeSpecialChars THEN StripSpecial(segment) ELSE segment
        s2 == IF cfg.separatorStrategy = "snake" THEN ReplaceFirst(s1, "-", "_")
              ELSE IF cfg.separatorStrategy = "kebab" THEN ReplaceFirst(s1, "_", "-")
              ELSE s1
        s3 == IF cfg.caseStrategy = "lowercase" THEN toLowerCase(s2)
              ELSE IF cfg.caseStrategy = "uppercase" THEN toUpperCase(s2)
              ELSE s2
    IN  s3

transformSegment(segment, cfg) ==
    LET s1 == IF cfg.removeSpecialChars THEN StripSpecial(segment) ELSE segment
        s2 == IF cfg.separatorStrategy = "snake" THEN HyphenToUnderscore(s1)
              ELSE IF cfg.separatorStrategy = "kebab" THEN UnderscoreToHyphen(s1)
              ELSE s1
        s3 == IF cfg.caseStrategy = "lowercase" THEN toLowerCase(s2)
              ELSE IF cfg.caseStrategy = "uppercase" THEN toUpperCase(s2)
              ELSE s2
    IN  s3

\* convertTagContent that transforms every segment whatever applyToNestedTags
convertTagContent_AllSegments(content, cfg) ==
    LET parts == SplitSlash(content)
    IN  JoinSlash([index \in 1..Len(parts) |-> transformSegment(parts[index], cfg)])

convertTagContent(content, cfg) ==
    LET parts == SplitSlash(content)
        processedParts ==
            [index \in 1..Len(parts) |->
                IF index > 1 /\ ~cfg.applyToNestedTags
                THEN parts[index]
                ELSE transformSegment(parts[index], cfg)]
    IN  JoinSlash(processedParts)

-----------------------------------------------------------------------------
(* Documents: frontmatter values and raw text *)

\* A frontmatter value: kind "absent" (no such key), "string", "array" or
\* "number" (a scalar that is neither); items holds the string of a
\* "string" value and the elements of an "array"; an element is a string
\* or, as YAML allows, a number.
StrItem(s) == [type |-> "string", val |-> s]

NumItem == [type |-> "number", val |-> <<"1">>]

Absent == [kind |-> "absent", items |-> <<>>]

StringValue(s) == [kind |-> "string", items |-> <<StrItem(s)>>]

ArrayValue(items) == [kind |-> "array", items |-> items]

NumberValue == [kind |-> "number", items |-> <<NumItem>>]

\* if (frontmatter.tags) : undefined and '' are falsy, arrays are truthy
Truthy(v) ==
    \/ v.kind = "array"
    \/ v.kind = "number"
    \/ v.kind = "string" /\ v.items[1].val # <<>>

\* t.startsWith is not a function: an array element that is no string
ThrowsOnValue(v) ==
    Truthy(v) /\ v.kind = "array"
    /\ \E k \in 1..Len(v.items) : v.items[k].type # "string"

\* processFile's processSingleTag
processSingleTag(t, cfg) ==
    LET hasHash == StartsWith(t, <<"#">>)
        clean == IF hasHash THEN SubSeq(t, 2, Len(t)) ELSE t
        converted == convertTagContent(clean, cfg)
    IN  IF hasHash THEN <<"#">> \o converted ELSE converted

\* the if (frontmatter.tags) { ... } block of processFile, for one field
NormalizeField(v, cfg) ==
    IF ~Truthy(v) THEN v
    ELSE IF v.kind = "array"
    THEN ArrayValue([k \in 1..Len(v.items) |->
                        StrItem(processSingleTag(v.items[k].val, cfg))])
    ELSE IF v.kind = "string"
    THEN StringValue(processSingleTag(v.items[1].val, cfg))
    ELSE v

\* the processFrontMatter callback of processFile
NormalizeFrontMatter(doc, cfg) ==
    [doc EXCEPT !.tags = NormalizeField(doc.tags, cfg),
                !.tag = NormalizeField(doc.tag, cfg)]

\* the end of the greedy run [\p{L}\p{N}_\-\/]* that starts at index j
RunEnd(data, j) ==
    CHOOSE e \in (j - 1)..Len(data) :
        /\ \A k \in j..e : IsTagBodyChar(data[k])
        /\ e = Len(data) \/ ~IsTagBodyChar(data[e + 1])

\* (^|\s)# tried at index i: the index of the '#', or 0 when neither
\* alternative matches there ('^' is the start of the text: no m flag)
HashAfterBoundary(data, i) ==
    IF i = 1 /\ data[1] = "#" THEN 1
    ELSE IF IsWhitespace(data[i]) /\ i + 1 <= Len(data) /\ data[i + 1] = "#"
    THEN i + 1
    ELSE 0

\* The same replace with a callback that returns '#' + converted and so
\* forgets the captured prefix
RECURSIVE NormalizeTextFrom_DropPrefix(_, _, _)
NormalizeTextFrom_DropPrefix(data, i, cfg) ==
    IF i > Len(data) THEN <<>>
    ELSE LET h == HashAfterBoundary(data, i)
             e == RunEnd(data, h + 1)
         IN  IF h > 0 /\ e > h
             THEN <<"#">> \o convertTagContent(SubSeq(data, h + 1, e), cfg)
                  \o NormalizeTextFrom_DropPrefix(data, e + 1, cfg)
             ELSE <<data[i]>> \o NormalizeTextFrom_DropPrefix(data, i + 1, cfg)

\* data.replace(/(^|\s)(#[\p{L}\p{N}_\-\/]+)/gu, cb) from index i on: at a
\* match emit prefix + '#' + convertTagContent(body) and resume after the
\* match, else copy one character
RECURSIVE NormalizeTextFrom(_, _, _)
NormalizeTextFrom(data, i, cfg) ==
    IF i > Len(data) THEN <<>>
    ELSE LET h == HashAfterBoundary(data, i)
             e == RunEnd(data, h + 1)
         IN  IF h > 0 /\ e > h
             THEN SubSeq(data, i, h - 1) \o <<"#">>
                  \o convertTagContent(SubSeq(data, h + 1, e), cfg)
                  \o NormalizeTextFrom(data, e + 1, cfg)
             ELSE <<data[i]>> \o NormalizeTextFrom(data, i + 1, cfg)

\* the vault.process callback of processFile
NormalizeText(data, cfg) == NormalizeTextFrom(data, 1, cfg)

-----------------------------------------------------------------------------
(* State shared by the specifications *)

\* No async operation in flight.  legacy and chosen are records of the
\* past: the snakeCase value the last load migrated, and the separator
\* strategy the user last chose in a control ("none": no choice made yet)
IdleRun ==
    [op |-> "idle", pc |-> "idle", idx |-> 0, processedCount |-> 0,
     modified |-> FALSE, search |-> <<>>, replace |-> <<>>,
     legacy |-> "absent", chosen |-> "none"]

SettingsKeys ==
    {"caseStrategy", "separatorStrategy", "removeSpecialChars", "applyToNestedTags"}

\* loadData() resolves to null: no data.json yet
NullBlob == [isNull |-> TRUE, vals |-> DEFAULT_SETTINGS, missing |-> SettingsKeys]

\* getTags() of a vault without tags
NoTags == [isNull |-> FALSE, keys |-> <<>>]

\* What the user types into the Find and the Replace field
RenameOlds == {<<>>, <<"#">>, <<"A">>, <<"#", "A">>, <<"A", "/">>, <<"A", "!">>}

RenameNews == {<<>>, <<"#">>, <<"B">>, <<"#", "B", "/", "B">>, <<"A">>}

\* "All Tags.md" does not exist
NoFile == [exists |-> FALSE, lines |-> <<>>, pending |-> <<>>]

-----------------------------------------------------------------------------
(* SpecTransform: direct calls of the pure transformer                     *)

\* Characters the transformer inputs are drawn from
TagAlphabet == {"a", "A", "-", "_", "!", "/", "U+0130", "U+0307"}

InitTransform ==
    /\ settings \in SettingsSet
    /\ tagContent \in StringsUpTo(TagAlphabet, MaxTagLen)
    /\ tagOut = <<>>
    /\ segOut = <<>>
    /\ persisted = NullBlob
    /\ docs = <<>>
    /\ vault0 = <<>>
    /\ tagCache = NoTags
    /\ locale = "lower-first"
    /\ listing = NoFile
    /\ notices = <<>>
    /\ rmwLog = <<>>
    /\ run = IdleRun

\* convertTagContent(tagContent)
CallConvertTagContent ==
    /\ tagOut = <<>>
    /\ tagOut' = <<convertTagContent(tagContent, settings)>>
    /\ UNCHANGED <<settings, persisted, docs, vault0, tagCache, locale,
                   listing, notices,
                   rmwLog, run, tagContent, segOut>>

\* transformSegment(tagContent), then transformSegment of that result
CallTransformSegment ==
    /\ Len(segOut) < 2
    /\ segOut' = Append(segOut,
                     transformSegment(IF segOut = <<>> THEN tagContent
                                      ELSE segOut[Len(segOut)], settings))
    /\ UNCHANGED <<settings, persisted, docs, vault0, tagCache, locale,
                   listing, notices,
                   rmwLog, run, tagContent, tagOut>>

NextTransform == CallConvertTagContent \/ CallTransformSegment

SpecTransform == InitTransform /\ [][NextTransform]_vars

-----------------------------------------------------------------------------
(* runConversion: the bulk normalization driver.  An action is the code    *)
(* that runs between two awaits; the host runs one processFrontMatter or  *)
(* vault.process (read, callback, write) as one step.                     *)

NoticeOf(msg, n) == [msg |-> msg, n |-> n]

\* runConversion up to its first await: the files are listed, the start
\* notice is shown; with no file the loop is skipped and the completion
\* notice follows at once
StartConversion ==
    /\ run.op = "idle"
    /\ IF Len(docs) = 0
       THEN /\ run' = [run EXCEPT !.op = "convert", !.pc = "done"]
            /\ notices' = notices \o <<NoticeOf("Starting conversion", 0),
                                       NoticeOf("Completed. Processed", 0)>>
       ELSE /\ run' = [run EXCEPT !.op = "convert", !.pc = "meta", !.idx = 1]
            /\ notices' = Append(notices, NoticeOf("Starting conversion", Len(docs)))
    /\ UNCHANGED <<settings, persisted, docs, vault0, tagCache, locale,
                   listing,
                   rmwLog, tagContent, tagOut, segOut>>

\* The for loop of runConversion after the file at run.idx is over (counted
\* or caught): the next file, or the completion notice
ConversionAdvance(count) ==
    IF run.idx < Len(docs)
    THEN /\ run' = [run EXCEPT !.pc = "meta", !.idx = run.idx + 1,
                               !.processedCount = count]
         /\ notices' = notices
    ELSE /\ run' = [run EXCEPT !.pc = "done", !.processedCount = count]
         /\ notices' = Append(notices, NoticeOf("Completed. Processed", count))

\* a tally taken whether or not processFile threw
CountAfter_Always(count, ok) == count + 1

\* try { await processFile(file); processedCount++ } catch { }
CountAfter(count, ok) == IF ok THEN count + 1 ELSE count

\* processFile, first await: processFrontMatter on the current file.  The
\* host may reject (hostOk false) and the callback throws on a non-string
\* element; either way nothing is written and runConversion's catch runs.
ConversionFrontMatter ==
    /\ run.op = "convert" /\ run.pc = "meta"
    /\ \E hostOk \in BOOLEAN :
         LET d == docs[run.idx]
             ok == hostOk /\ ~ThrowsOnValue(d.tags) /\ ~ThrowsOnValue(d.tag)
         IN  /\ rmwLog' = Append(rmwLog, [doc |-> run.idx, step |-> "meta", ok |-> ok,
                                           cfg |-> settings])
             /\ IF ok
                THEN /\ docs' = [docs EXCEPT ![run.idx] = NormalizeFrontMatter(d, settings)]
                     /\ run' = [run EXCEPT !.pc = "text"]
                     /\ notices' = notices
                ELSE /\ docs' = docs
                     /\ ConversionAdvance(CountAfter(run.processedCount, FALSE))
    /\ UNCHANGED <<settings, persisted, vault0, tagCache, locale, listing,
                   tagContent, tagOut, segOut>>

\* processFile, second await: vault.process on the current file, then
\* processedCount++ (or the catch) and the rest of the loop
ConversionText ==
    /\ run.op = "convert" /\ run.pc = "text"
    /\ \E hostOk \in BOOLEAN :
         LET d == docs[run.idx]
         IN  /\ rmwLog' = Append(rmwLog, [doc |-> run.idx, step |-> "text", ok |-> hostOk,
                                           cfg |-> settings])
             /\ IF hostOk
                THEN /\ docs' = [docs EXCEPT ![run.idx].text = NormalizeText(d.text, settings)]
                     /\ ConversionAdvance(CountAfter(run.processedCount, TRUE))
                ELSE /\ docs' = docs
                     /\ ConversionAdvance(CountAfter(run.processedCount, FALSE))
    /\ UNCHANGED <<settings, persisted, vault0, tagCache, locale, listing,
                   tagContent, tagOut, segOut>>

-----------------------------------------------------------------------------
(* SpecNormalize: runConversion on a vault of one file                     *)

MetaAlphabet == {"#", "A", "_", "/"}

TextAlphabet == {"#", " ", "A", "/", "!"}

MetaStrings == StringsUpTo(MetaAlphabet, MaxMetaLen)

\* Values of a tags / tag key: missing, a number, a string, a sequence
MetaValues ==
    {Absent, NumberValue, ArrayValue(<<>>), ArrayValue(<<NumItem>>)}
    \cup {StringValue(s) : s \in MetaStrings}
    \cup {ArrayValue(<<StrItem(s)>>) : s \in MetaStrings}
    \cup {ArrayValue(<<StrItem(s), t>>) :
            s \in MetaStrings,
            t \in {StrItem(<<"#", "A", "_">>), StrItem(<<"A", "/", "A">>), NumItem}}

\* One file: any frontmatter with a short text, or any text with a short
\* frontmatter
OneFileVaults ==
    {<<[tags |-> v, tag |-> Absent, text |-> <<"#", "A">>]>> : v \in MetaValues}
    \cup {<<[tags |-> StringValue(<<"A">>), tag |-> v, text |-> <<>>]>> : v \in MetaValues}
    \cup {<<[tags |-> v, tag |-> Absent, text |-> t]>> :
            v \in {Absent, ArrayValue(<<StrItem(<<"#", "A">>)>>)},
            t \in StringsUpTo(TextAlphabet, MaxTextLen)}

InitNormalize ==
    /\ settings \in SettingsSet
    /\ docs \in OneFileVaults
    /\ vault0 = docs
    /\ tagContent = <<>>
    /\ tagOut = <<>>
    /\ segOut = <<>>
    /\ persisted = NullBlob
    /\ tagCache = NoTags
    /\ locale = "lower-first"
    /\ listing = NoFile
    /\ notices = <<>>
    /\ rmwLog = <<>>
    /\ run = IdleRun

NextNormalize == StartConversion \/ ConversionFrontMatter \/ ConversionText

SpecNormalize == InitNormalize /\ [][NextNormalize]_vars

-----------------------------------------------------------------------------
(* renameTag: the targeted rename driver                                   *)

\* oldTag.startsWith('#') ? oldTag.substring(1) : oldTag
StripHash(t) == IF StartsWith(t, <<"#">>) THEN SubSeq(t, 2, Len(t)) ELSE t

\* renameTag's processSingleTag with a prefix test that forgets the '/'
renameSingleTag_NoSlash(t, search, replace) ==
    LET hasHash == StartsWith(t, <<"#">>)
        raw == IF hasHash THEN SubSeq(t, 2, Len(t)) ELSE t
    IN  IF StartsWith(raw, search)
        THEN (IF hasHash THEN <<"#">> ELSE <<>>)
             \o replace \o SubSeq(raw, Len(search) + 1, Len(raw))
        ELSE t

\* renameTag's processSingleTag: the new value of one string
renameSingleTag(t, search, replace) ==
    LET hasHash == StartsWith(t, <<"#">>)
        raw == IF hasHash THEN SubSeq(t, 2, Len(t)) ELSE t
    IN  IF raw = search
        THEN (IF hasHash THEN <<"#">> \o replace ELSE replace)
        ELSE IF StartsWith(raw, search \o <<"/">>)
        THEN LET newRaw == replace \o SubSeq(raw, Len(search) + 1, Len(raw))
             IN  IF hasHash THEN <<"#">> \o newRaw ELSE newRaw
        ELSE t

\* renameTag's processSingleTag: whether it sets modified = true
renameSingleTagMatches(t, search) ==
    LET raw == StripHash(t)
    IN  raw = search \/ StartsWith(raw, search \o <<"/">>)

\* the if (frontmatter.tags) { ... } block of renameTag, for one field
RenameField(v, search, replace) ==
    IF ~Truthy(v) THEN v
    ELSE IF v.kind = "array"
    THEN ArrayValue([k \in 1..Len(v.items) |->
                        StrItem(renameSingleTag(v.items[k].val, search, replace))])
    ELSE IF v.kind = "string"
    THEN StringValue(renameSingleTag(v.items[1].val, search, replace))
    ELSE v

\* whether that block sets modified = true
RenameFieldMatches(v, search) ==
    /\ Truthy(v)
    /\ v.kind \in {"array", "string"}
    /\ \E k \in 1..Len(v.items) : renameSingleTagMatches(v.items[k].val, search)

\* (?=[\s\/]|$|[^\p{L}\p{N}_-]) tried at index j
RenameLookahead(data, j) ==
    \/ j > Len(data)
    \/ IsWhitespace(data[j])
    \/ data[j] = "/"
    \/ ~IsSegmentChar(data[j])

\* tagRegex built without its lookahead
RenameMatchAt_NoLookahead(data, i, search) ==
    LET h == HashAfterBoundary(data, i)
    IN  IF /\ h > 0
           /\ h + Len(search) <= Len(data)
           /\ SubSeq(data, h + 1, h + Len(search)) = search
        THEN h ELSE 0

\* tagRegex of renameTag tried at index i: the index of the '#' of a match
\* (prefix, '#', the literal search, the lookahead), or 0
RenameMatchAt(data, i, search) ==
    LET h == HashAfterBoundary(data, i)
    IN  IF /\ h > 0
           /\ h + Len(search) <= Len(data)
           /\ SubSeq(data, h + 1, h + Len(search)) = search
           /\ RenameLookahead(data, h + Len(search) + 1)
        THEN h ELSE 0

\* data.replace(tagRegex, cb) from index i on: at a match emit
\* prefix + hash + replace and resume after the matched search
RECURSIVE RenameTextFrom(_, _, _, _)
RenameTextFrom(data, i, search, replace) ==
    IF i > Len(data) THEN <<>>
    ELSE LET h == RenameMatchAt(data, i, search)
         IN  IF h > 0
             THEN SubSeq(data, i, h - 1) \o <<"#">> \o replace
                  \o RenameTextFrom(data, h + Len(search) + 1, search, replace)
             ELSE <<data[i]>> \o RenameTextFrom(data, i + 1, search, replace)

\* the vault.process callback of renameTag
RenameText(data, search, replace) == RenameTextFrom(data, 1, search, replace)

\* whether that callback sets modified = true: the regex matches somewhere
RenameTextMatches(data, search) ==
    \E i \in 1..Len(data) : RenameMatchAt(data, i, search) > 0

\* a check made on the inputs as typed, before the '#' is stripped
RenameRejects_Unstripped(oldTag, newTag) == oldTag = <<>> \/ newTag = <<>>

\* if (!search || !replace) after the leading '#' is stripped
RenameRejects(oldTag, newTag) ==
    StripHash(oldTag) = <<>> \/ StripHash(newTag) = <<>>

\* btnRename.onclick with the two inputs, and renameTag up to its first
\* await: the onclick check, the files listed, the '#' stripped, the check
\* of search and replace, the start notice
ClickRename ==
    /\ run.op = "idle"
    /\ \E oldT \in RenameOlds, newT \in RenameNews :
         LET search == StripHash(oldT)
             replace == StripHash(newT)
             started == [run EXCEPT !.op = "rename", !.search = search,
                                    !.replace = replace]
         IN  IF oldT = <<>> \/ newT = <<>>
             THEN /\ run' = [run EXCEPT !.op = "rename", !.pc = "notCalled"]
                  /\ notices' = Append(notices, NoticeOf("Please fill both Find and Replace fields.", 0))
             ELSE IF RenameRejects(oldT, newT)
             THEN /\ run' = [started EXCEPT !.pc = "rejected"]
                  /\ notices' = Append(notices, NoticeOf("Please provide both old and new tags.", 0))
             ELSE IF Len(docs) = 0
             THEN /\ run' = [started EXCEPT !.pc = "done"]
                  /\ notices' = notices \o <<NoticeOf("Renaming", 0),
                                             NoticeOf("Renamed in", 0)>>
             ELSE /\ run' = [started EXCEPT !.pc = "meta", !.idx = 1]
                  /\ notices' = Append(notices, NoticeOf("Renaming", 0))
    /\ UNCHANGED <<settings, persisted, docs, vault0, tagCache, locale,
                   listing,
                   rmwLog, tagContent, tagOut, segOut>>

\* renameTag, first await of the loop body: processFrontMatter on the
\* current file.  renameTag has no try/catch: a rejection ends the run.
RenameFrontMatter ==
    /\ run.op = "rename" /\ run.pc = "meta"
    /\ \E hostOk \in BOOLEAN :
         LET d == docs[run.idx]
             ok == hostOk /\ ~ThrowsOnValue(d.tags) /\ ~ThrowsOnValue(d.tag)
         IN  /\ rmwLog' = Append(rmwLog, [doc |-> run.idx, step |-> "meta", ok |-> ok])
             /\ IF ok
                THEN /\ docs' = [docs EXCEPT ![run.idx] =
                                   [d EXCEPT !.tags = RenameField(d.tags, run.search, run.replace),
                                             !.tag = RenameField(d.tag, run.search, run.replace)]]
                     /\ run' = [run EXCEPT !.pc = "text",
                                   !.modified = \/ RenameFieldMatches(d.tags, run.search)
                                                \/ RenameFieldMatches(d.tag, run.search)]
                ELSE /\ docs' = docs
                     /\ run' = [run EXCEPT !.pc = "aborted"]
    /\ UNCHANGED <<settings, persisted, vault0, tagCache, locale, listing, notices,
                   tagContent, tagOut, segOut>>

\* renameTag, second await of the loop body: vault.process on the current
\* file, then if (modified) processedCount++ and the rest of the loop
RenameBody ==
    /\ run.op = "rename" /\ run.pc = "text"
    /\ \E hostOk \in BOOLEAN :
         LET d == docs[run.idx]
             modified == run.modified \/ RenameTextMatches(d.text, run.search)
             count == IF modified THEN run.processedCount + 1 ELSE run.processedCount
         IN  /\ rmwLog' = Append(rmwLog, [doc |-> run.idx, step |-> "text", ok |-> hostOk])
             /\ IF ~hostOk
                THEN /\ docs' = docs
                     /\ run' = [run EXCEPT !.pc = "aborted"]
                     /\ notices' = notices
                ELSE /\ docs' = [docs EXCEPT ![run.idx].text =
                                   RenameText(d.text, run.search, run.replace)]
                     /\ IF run.idx < Len(docs)
                        THEN /\ run' = [run EXCEPT !.pc = "meta", !.idx = run.idx + 1,
                                                   !.modified = FALSE,
                                                   !.processedCount = count]
                             /\ notices' = notices
                        ELSE /\ run' = [run EXCEPT !.pc = "done", !.modified = modified,
                                                   !.processedCount = count]
                             /\ notices' = Append(notices, NoticeOf("Renamed in", count))
    /\ UNCHANGED <<settings, persisted, vault0, tagCache, locale, listing,
                   tagContent, tagOut, segOut>>

-----------------------------------------------------------------------------
(* SpecRename: a rename on a vault of one file                             *)

RenameTextAlphabet == {"#", " ", "A", "/", "-", "!"}

RenameMetaStrings == StringsUpTo({"#", "A", "/", "-"}, MaxMetaLen)

RenameMetaValues ==
    {Absent, NumberValue, ArrayValue(<<>>), ArrayValue(<<NumItem>>)}
    \cup {StringValue(s) : s \in RenameMetaStrings}
    \cup {ArrayValue(<<StrItem(s)>>) : s \in RenameMetaStrings}
    \cup {ArrayValue(<<StrItem(s), t>>) :
            s \in RenameMetaStrings,
            t \in {StrItem(<<"#", "A">>), StrItem(<<"A", "A">>), NumItem}}

OneFileRenameVaults ==
    {<<[tags |-> v, tag |-> Absent, text |-> <<"#", "A">>]>> : v \in RenameMetaValues}
    \cup {<<[tags |-> StringValue(<<"A">>), tag |-> v, text |-> <<>>]>> : v \in RenameMetaValues}
    \cup {<<[tags |-> v, tag |-> Absent, text |-> t]>> :
            v \in {Absent, ArrayValue(<<StrItem(<<"#", "A">>)>>)},
            t \in StringsUpTo(RenameTextAlphabet, MaxTextLen)}

InitRename ==
    /\ settings = DEFAULT_SETTINGS
    /\ docs \in OneFileRenameVaults
    /\ vault0 = docs
    /\ tagContent = <<>>
    /\ tagOut = <<>>
    /\ segOut = <<>>
    /\ persisted = NullBlob
    /\ tagCache = NoTags
    /\ locale = "lower-first"
    /\ listing = NoFile
    /\ notices = <<>>
    /\ rmwLog = <<>>
    /\ run = IdleRun

NextRename == ClickRename \/ RenameFrontMatter \/ RenameBody

SpecRename == InitRename /\ [][NextRename]_vars

-----------------------------------------------------------------------------
(* SpecVault: one bulk operation on a vault of several files               *)

\* tags: ["#A_", "A/A"], text "#A #A/A"
FileNested ==
    [tags |-> ArrayValue(<<StrItem(<<"#", "A", "_">>), StrItem(<<"A", "/", "A">>)>>),
     tag |-> Absent,
     text |-> <<"#", "A", " ", "#", "A", "/", "A">>]

\* tag: "A", text "!#A #AA"
FileAlias ==
    [tags |-> Absent,
     tag |-> StringValue(<<"A">>),
     text |-> <<"!", "#", "A", " ", "#", "A", "A">>]

\* tags: [1], text "#A" : the frontmatter callback throws on this file
FileNumberTag ==
    [tags |-> ArrayValue(<<NumItem>>),
     tag |-> Absent,
     text |-> <<"#", "A">>]

FixtureFiles == {FileNested, FileAlias, FileNumberTag}

Vaults == UNION {[1..n -> FixtureFiles] : n \in 0..MaxDocs}

VaultSettings ==
    {DEFAULT_SETTINGS,
     [caseStrategy |-> "uppercase", separatorStrategy |-> "snake",
      removeSpecialChars |-> TRUE, applyToNestedTags |-> FALSE,
      snakeCase |-> "absent"]}

InitVault ==
    /\ settings \in VaultSettings
    /\ docs \in Vaults
    /\ vault0 = docs
    /\ tagContent = <<>>
    /\ tagOut = <<>>
    /\ segOut = <<>>
    /\ persisted = NullBlob
    /\ tagCache = NoTags
    /\ locale = "lower-first"
    /\ listing = NoFile
    /\ notices = <<>>
    /\ rmwLog = <<>>
    /\ run = IdleRun

NextVault ==
    \/ StartConversion
    \/ ConversionFrontMatter
    \/ ConversionText
    \/ ClickRename
    \/ RenameFrontMatter
    \/ RenameBody

SpecVault == InitVault /\ [][NextVault]_vars

\* The host settles every promise it returns: an awaited processFrontMatter
\* or vault.process resolves or rejects, and the continuation then runs
SpecVaultFair ==
    /\ SpecVault
    /\ WF_vars(ConversionFrontMatter)
    /\ WF_vars(ConversionText)
    /\ WF_vars(RenameFrontMatter)
    /\ WF_vars(RenameBody)

-----------------------------------------------------------------------------
(* loadSettings / saveSettings and the settings handlers                   *)

\* this.settings before onload has assigned it
Unloaded ==
    [caseStrategy |-> "undefined", separatorStrategy |-> "undefined",
     removeSpecialChars |-> FALSE, applyToNestedTags |-> FALSE,
     snakeCase |-> "absent"]

\* Object.assign({}, DEFAULT_SETTINGS, blob): every key the blob has wins,
\* the legacy snakeCase key included
AssignDefaults(blob) ==
    IF blob.isNull THEN DEFAULT_SETTINGS
    ELSE [caseStrategy |->
              IF "caseStrategy" \in blob.missing
              THEN DEFAULT_SETTINGS.caseStrategy ELSE blob.vals.caseStrategy,
          separatorStrategy |->
              IF "separatorStrategy" \in blob.missing
              THEN DEFAULT_SETTINGS.separatorStrategy ELSE blob.vals.separatorStrategy,
          removeSpecialChars |->
              IF "removeSpecialChars" \in blob.missing
              THEN DEFAULT_SETTINGS.removeSpecialChars ELSE blob.vals.removeSpecialChars,
          applyToNestedTags |->
              IF "applyToNestedTags" \in blob.missing
              THEN DEFAULT_SETTINGS.applyToNestedTags ELSE blob.vals.applyToNestedTags,
          snakeCase |-> blob.vals.snakeCase]

\* saveData(this.settings): the blob holds every key of the settings object
SavedBlob(obj) == [isNull |-> FALSE, vals |-> obj, missing |-> {}]

\* onload -> loadSettings, first statement: settings assigned from loadData()
LoadSettingsAssign ==
    /\ run.op = "load" /\ run.pc = "assign"
    /\ settings' = AssignDefaults(persisted)
    /\ run' = [run EXCEPT !.pc = "migrate"]
    /\ UNCHANGED <<persisted, docs, vault0, tagCache, locale, listing, notices,
                   rmwLog, tagContent, tagOut, segOut>>

\* loadSettings, migration: data = loadData() again; a snakeCase key sets
\* the separator strategy, is deleted from data (the local object, which is
\* neither this.settings nor what is saved), and saveSettings() is called,
\* which writes this.settings
LoadSettingsMigrate ==
    /\ run.op = "load" /\ run.pc = "migrate"
    /\ IF ~persisted.isNull /\ persisted.vals.snakeCase # "absent"
       THEN /\ settings' = [settings EXCEPT !.separatorStrategy =
                               IF persisted.vals.snakeCase = "true"
                               THEN "snake" ELSE "preserve"]
            /\ persisted' = SavedBlob(settings')
            /\ run' = [run EXCEPT !.pc = "saving",
                                  !.legacy = persisted.vals.snakeCase]
       ELSE /\ run' = [run EXCEPT !.pc = "done", !.legacy = "absent"]
            /\ UNCHANGED <<settings, persisted>>
    /\ UNCHANGED <<docs, vault0, tagCache, locale, listing, notices,
                   rmwLog, tagContent, tagOut, segOut>>

\* loadSettings, after await this.saveSettings(): it returns
LoadSettingsSaved ==
    /\ run.op = "load" /\ run.pc = "saving"
    /\ run' = [run EXCEPT !.pc = "done"]
    /\ UNCHANGED <<settings, persisted, docs, vault0, tagCache, locale,
                   listing, notices, rmwLog, tagContent, tagOut, segOut>>

\* The plugin is loaded and no operation is in flight
Ready == run.op = "idle" \/ (run.op = "load" /\ run.pc = "done")

\* onload has returned: the settings tab and the dashboard exist, whether
\* or not a bulk operation is suspended at an await
Loaded == run.op # "load" \/ run.pc = "done"

\* How many times the configuration changed under the steps of the bulk
\* normalization run so far: between two logged steps, or since the last one
ChangesInRun ==
    Cardinality({k \in 2..Len(rmwLog) : rmwLog[k].cfg # rmwLog[k - 1].cfg})
    + (IF rmwLog # <<>> /\ rmwLog[Len(rmwLog)].cfg # settings THEN 1 ELSE 0)

\* onChange of a setting's control (dashboard or settings tab): the field is
\* set and saveSettings() writes this.settings.  No handler looks at whether
\* a bulk operation is running.
SettingChanged(new) ==
    /\ Loaded
    /\ run.op = "convert" => ChangesInRun < MaxChanges
    /\ new # settings
    /\ settings' = new
    /\ persisted' = SavedBlob(new)
    /\ LET after == IF run.op = "load"
                     THEN [IdleRun EXCEPT !.chosen = run.chosen] ELSE run
       IN  run' = IF new.separatorStrategy # settings.separatorStrategy
                  THEN [after EXCEPT !.chosen = new.separatorStrategy]
                  ELSE after
    /\ UNCHANGED <<docs, vault0, tagCache, locale, listing, notices,
                   rmwLog, tagContent, tagOut, segOut>>

ChangeCaseStrategy ==
    \E value \in CaseStrategies :
        SettingChanged([settings EXCEPT !.caseStrategy = value])

ChangeSeparatorStrategy ==
    \E value \in SeparatorStrategies :
        SettingChanged([settings EXCEPT !.separatorStrategy = value])

ChangeRemoveSpecialChars ==
    \E value \in BOOLEAN :
        SettingChanged([settings EXCEPT !.removeSpecialChars = value])

ChangeApplyToNestedTags ==
    \E value \in BOOLEAN :
        SettingChanged([settings EXCEPT !.applyToNestedTags = value])

\* The plugin is reloaded: a new instance runs onload
Reload ==
    /\ Ready
    /\ settings' = Unloaded
    /\ run' = [IdleRun EXCEPT !.op = "load", !.pc = "assign",
                              !.chosen = run.chosen]
    /\ UNCHANGED <<persisted, docs, vault0, tagCache, locale, listing, notices,
                   rmwLog, tagContent, tagOut, segOut>>

-----------------------------------------------------------------------------
(* SpecSettings: a plugin instance loads whatever data.json holds          *)

\* Settings objects as a blob may hold them, the legacy key included
LegacySettingsSet ==
    [caseStrategy : CaseStrategies,
     separatorStrategy : SeparatorStrategies,
     removeSpecialChars : BOOLEAN,
     applyToNestedTags : BOOLEAN,
     snakeCase : {"absent", "true", "false"}]

\* data.json: none, a blob with every key, or a blob written before the
\* separatorStrategy key existed
PersistedBlobs ==
    {NullBlob}
    \cup {[isNull |-> FALSE, vals |-> v, missing |-> {}] : v \in LegacySettingsSet}
    \cup {[isNull |-> FALSE, vals |-> v, missing |-> {"separatorStrategy"}] :
            v \in {w \in LegacySettingsSet :
                     w.separatorStrategy = DEFAULT_SETTINGS.separatorStrategy}}

InitSettings ==
    /\ persisted \in PersistedBlobs
    /\ settings = Unloaded
    /\ run = [IdleRun EXCEPT !.op = "load", !.pc = "assign"]
    /\ docs = <<>>
    /\ vault0 = <<>>
    /\ tagContent = <<>>
    /\ tagOut = <<>>
    /\ segOut = <<>>
    /\ tagCache = NoTags
    /\ locale = "lower-first"
    /\ listing = NoFile
    /\ notices = <<>>
    /\ rmwLog = <<>>

NextSettings ==
    \/ LoadSettingsAssign
    \/ LoadSettingsMigrate
    \/ LoadSettingsSaved
    \/ ChangeCaseStrategy
    \/ ChangeSeparatorStrategy
    \/ ChangeRemoveSpecialChars
    \/ ChangeApplyToNestedTags
    \/ Reload

SpecSettings == InitSettings /\ [][NextSettings]_vars

-----------------------------------------------------------------------------
(* SpecLive: a bulk normalization run while the settings controls are live *)

LiveVaults == UNION {[1..n -> FixtureFiles] : n \in 1..MaxLiveDocs}

InitLive ==
    /\ settings \in VaultSettings
    /\ persisted = SavedBlob(settings)
    /\ docs \in LiveVaults
    /\ vault0 = docs
    /\ tagContent = <<>>
    /\ tagOut = <<>>
    /\ segOut = <<>>
    /\ tagCache = NoTags
    /\ locale = "lower-first"
    /\ listing = NoFile
    /\ notices = <<>>
    /\ rmwLog = <<>>
    /\ run = IdleRun

NextLive ==
    \/ StartConversion
    \/ ConversionFrontMatter
    \/ ConversionText
    \/ ChangeCaseStrategy
    \/ ChangeSeparatorStrategy
    \/ ChangeRemoveSpecialChars
    \/ ChangeApplyToNestedTags

SpecLive == InitLive /\ [][NextLive]_vars

-----------------------------------------------------------------------------
(* generateTagList                                                         *)

\* The primary collation weight of a character: punctuation, then digits,
\* then letters, a letter and its capital alike
PrimaryWeight(c) ==
    CASE c = "_" -> 1
      [] c = "-" -> 2
      [] c = "!" -> 3
      [] c = "/" -> 4
      [] c = "#" -> 5
      [] c = "1" -> 6
      [] c \in {"a", "A"} -> 7
      [] c \in {"b", "B"} -> 8
      [] c \in {"i", "I"} -> 9

\* The case (tertiary) weight of a character in the host's collation
CaseWeight(c, loc) ==
    IF c \in {"A", "B", "I"}
    THEN (IF loc = "lower-first" THEN 1 ELSE 0)
    ELSE (IF loc = "lower-first" THEN 0 ELSE 1)

\* The UTF-16 code unit of a character
CodeUnit(c) ==
    CASE c = "!" -> 33
      [] c = "#" -> 35
      [] c = "-" -> 45
      [] c = "/" -> 47
      [] c = "1" -> 49
      [] c = "A" -> 65
      [] c = "B" -> 66
      [] c = "I" -> 73
      [] c = "_" -> 95
      [] c = "a" -> 97
      [] c = "b" -> 98
      [] c = "i" -> 105

\* Two sequences of numbers compared lexicographically: -1, 0 or 1
RECURSIVE CompareWeights(_, _)
CompareWeights(x, y) ==
    IF x = <<>> /\ y = <<>> THEN 0
    ELSE IF x = <<>> THEN -1
    ELSE IF y = <<>> THEN 1
    ELSE IF Head(x) < Head(y) THEN -1
    ELSE IF Head(x) > Head(y) THEN 1
    ELSE CompareWeights(Tail(x), Tail(y))

\* the default comparator of Array.prototype.sort: code units
codeUnitCompare(a, b, loc) ==
    CompareWeights([k \in 1..Len(a) |-> CodeUnit(a[k])],
                   [k \in 1..Len(b) |-> CodeUnit(b[k])])

\* a.localeCompare(b): the primary weights decide, then the case weights
localeCompare(a, b, loc) ==
    LET p == CompareWeights([k \in 1..Len(a) |-> PrimaryWeight(a[k])],
                            [k \in 1..Len(b) |-> PrimaryWeight(b[k])])
    IN  IF p # 0 THEN p
        ELSE CompareWeights([k \in 1..Len(a) |-> CaseWeight(a[k], loc)],
                            [k \in 1..Len(b) |-> CaseWeight(b[k], loc)])

\* x put into a sorted array after every element that does not come after it
RECURSIVE InsertByCodeUnit(_, _, _)
InsertByCodeUnit(x, sorted, loc) ==
    IF sorted = <<>> THEN <<x>>
    ELSE IF codeUnitCompare(Head(sorted), x, loc) <= 0
    THEN <<Head(sorted)>> \o InsertByCodeUnit(x, Tail(sorted), loc)
    ELSE <<x>> \o sorted

\* Object.keys(tags).sort() without a comparator
RECURSIVE SortTags_Default(_, _)
SortTags_Default(keys, loc) ==
    IF keys = <<>> THEN <<>>
    ELSE InsertByCodeUnit(keys[Len(keys)],
                          SortTags_Default(SubSeq(keys, 1, Len(keys) - 1), loc), loc)

\* x put into a sorted array after every element that does not come after it
\* (Array.prototype.sort is stable)
RECURSIVE InsertByLocale(_, _, _)
InsertByLocale(x, sorted, loc) ==
    IF sorted = <<>> THEN <<x>>
    ELSE IF localeCompare(Head(sorted), x, loc) <= 0
    THEN <<Head(sorted)>> \o InsertByLocale(x, Tail(sorted), loc)
    ELSE <<x>> \o sorted

\* Object.keys(tags).sort((a, b) => a.localeCompare(b))
RECURSIVE SortTags(_, _)
SortTags(keys, loc) ==
    IF keys = <<>> THEN <<>>
    ELSE InsertByLocale(keys[Len(keys)],
                        SortTags(SubSeq(keys, 1, Len(keys) - 1), loc), loc)

\* sortedTags.map(t => `- ${t}`) : the lines under the "# All Tags" heading
ListLines(sortedTags) ==
    [k \in 1..Len(sortedTags) |-> <<"-", " ">> \o sortedTags[k]]

\* generateTagList up to its await: the two "no tags" returns, or the
\* content built and handed to vault.modify / vault.create
GenerateTagList ==
    /\ run.op = "idle"
    /\ IF tagCache.isNull
       THEN /\ notices' = Append(notices, NoticeOf("No tags found in vault.", 0))
            /\ run' = [run EXCEPT !.op = "list", !.pc = "done"]
            /\ listing' = listing
       ELSE IF Len(tagCache.keys) = 0
       THEN /\ notices' = Append(notices, NoticeOf("No tags found to list.", 0))
            /\ run' = [run EXCEPT !.op = "list", !.pc = "done"]
            /\ listing' = listing
       ELSE /\ notices' = notices
            /\ run' = [run EXCEPT !.op = "list", !.pc = "write"]
            /\ listing' = [listing EXCEPT
                              !.pending = ListLines(SortTags(tagCache.keys, locale))]
    /\ UNCHANGED <<settings, persisted, docs, vault0, tagCache, locale,
                   rmwLog, tagContent, tagOut, segOut>>

\* generateTagList after its await: the file was modified or created and
\* the notice gives the number of tags, or the write failed
TagListWritten ==
    /\ run.op = "list" /\ run.pc = "write"
    /\ \E hostOk \in BOOLEAN :
         IF hostOk
         THEN /\ listing' = [exists |-> TRUE, lines |-> listing.pending,
                             pending |-> <<>>]
              /\ notices' = Append(notices,
                               NoticeOf(IF listing.exists THEN "Updated" ELSE "Created",
                                        Len(listing.pending)))
         ELSE /\ listing' = [listing EXCEPT !.pending = <<>>]
              /\ notices' = Append(notices, NoticeOf("Failed to create tag list file.", 0))
    /\ run' = [run EXCEPT !.pc = "done"]
    /\ UNCHANGED <<settings, persisted, docs, vault0, tagCache, locale,
                   rmwLog, tagContent, tagOut, segOut>>

-----------------------------------------------------------------------------
(* SpecTagList: the listing of a vault's tags                              *)

\* Tags the metadata cache may know
KnownTags ==
    {<<"#", "a">>, <<"#", "A">>, <<"#", "b">>, <<"#", "B">>,
     <<"#", "a", "/", "B">>, <<"#", "a", "B">>, <<"#", "_", "a">>}

\* Object.keys(getTags()): distinct keys, in the cache's own order
TagKeyOrders ==
    {ks \in UNION {[1..n -> KnownTags] : n \in 0..MaxListTags} :
        \A j, k \in 1..Len(ks) : j # k => ks[j] # ks[k]}

InitTagList ==
    /\ tagCache \in {[isNull |-> TRUE, keys |-> <<>>]}
                    \cup {[isNull |-> FALSE, keys |-> ks] : ks \in TagKeyOrders}
    /\ locale \in {"lower-first", "upper-first"}
    /\ listing \in {NoFile,
                    [exists |-> TRUE, lines |-> <<<<"-", " ", "#", "b">>>>,
                     pending |-> <<>>]}
    /\ settings = DEFAULT_SETTINGS
    /\ persisted = NullBlob
    /\ docs = <<>>
    /\ vault0 = <<>>
    /\ tagContent = <<>>
    /\ tagOut = <<>>
    /\ segOut = <<>>
    /\ notices = <<>>
    /\ rmwLog = <<>>
    /\ run = IdleRun

NextTagList == GenerateTagList \/ TagListWritten

SpecTagList == InitTagList /\ [][NextTagList]_vars

-----------------------------------------------------------------------------
(* Claims about the transformer *)

\* C1: transformSegment is idempotent: for every configuration and every
\* input segment, applying it to its own result gives that result again.
C1_Idempotent == Len(segOut) = 2 => segOut[2] = segOut[1]

\* What one input character contributes to the result, read off the three
\* rules: dropped when stripping is on and it is not a letter, digit, hyphen
\* or underscore; else its separator is swapped; else its case is mapped.
ExpectedOfChar(c, cfg) ==
    IF cfg.removeSpecialChars
       /\ ~(IsLetter(c) \/ IsNumber(c) \/ c \in {"-", "_"})
    THEN <<>>
    ELSE IF c = "-" THEN (IF cfg.separatorStrategy = "snake" THEN <<"_">> ELSE <<"-">>)
    ELSE IF c = "_" THEN (IF cfg.separatorStrategy = "kebab" THEN <<"-">> ELSE <<"_">>)
    ELSE IF cfg.caseStrategy = "lowercase" THEN LowerOf(c)
    ELSE IF cfg.caseStrategy = "uppercase" THEN UpperOf(c)
    ELSE <<c>>

RECURSIVE ExpectedOfString(_, _)
ExpectedOfString(s, cfg) ==
    IF s = <<>> THEN <<>>
    ELSE ExpectedOfChar(Head(s), cfg) \o ExpectedOfString(Tail(s), cfg)

CaseMapped(s, cfg) ==
    IF cfg.caseStrategy = "lowercase" THEN toLowerCase(s)
    ELSE IF cfg.caseStrategy = "uppercase" THEN toUpperCase(s)
    ELSE s

\* C2: transformSegment returns case(separator(strip(segment))): character
\* by character the result is the input with special characters dropped
\* (only when remove-special-chars is on), separators swapped as the
\* strategy says and the case mapped. With remove-special-chars off a snake
\* result has no hyphen, a kebab result has no underscore, and a preserve
\* result has every hyphen and underscore of the input, each right after
\* the case-mapped text that precedes it in the input.
C2_TransformSegment ==
    segOut # <<>> =>
        LET x == tagContent
            r == segOut[1]
            seps(s) == SelectSeq(s, LAMBDA c : c \in {"-", "_"})
        IN  /\ r = ExpectedOfString(x, settings)
            /\ ~settings.removeSpecialChars =>
                 /\ settings.separatorStrategy = "snake" =>
                        \A k \in 1..Len(r) : r[k] # "-"
                 /\ settings.separatorStrategy = "kebab" =>
                        \A k \in 1..Len(r) : r[k] # "_"
                 /\ settings.separatorStrategy = "preserve" =>
                        /\ seps(r) = seps(x)
                        /\ \A i \in 1..Len(x) :
                              x[i] \in {"-", "_"} =>
                                LET at == Len(CaseMapped(SubSeq(x, 1, i - 1), settings)) + 1
                                IN  at <= Len(r) /\ r[at] = x[i]

\* C2 witness: a snake call on a segment with two hyphens and an uppercase
\* letter, lowercased
C2_Witness ==
    /\ segOut # <<>>
    /\ tagContent = <<"-", "A", "-">>
    /\ settings.separatorStrategy = "snake"
    /\ settings.caseStrategy = "lowercase"
    /\ ~settings.removeSpecialChars
    /\ segOut[1] = <<"_", "a", "_">>

\* The part of a tag from its first "/" on (empty when it has none)
FromFirstSlash(s) ==
    IF \A k \in 1..Len(s) : s[k] # "/" THEN <<>>
    ELSE LET p == CHOOSE k \in 1..Len(s) :
                      s[k] = "/" /\ \A j \in 1..(k - 1) : s[j] # "/"
         IN  SubSeq(s, p, Len(s))

\* C3: with apply-to-nested off, convertTagContent of a tag with two or more
\* segments keeps the number of segments and every segment after the first:
\* the result has the input's text from the first "/" on, and segment 0 of
\* the result holds no "/".
C3_NestedUntouched ==
    (/\ tagOut # <<>>
     /\ ~settings.applyToNestedTags
     /\ \E k \in 1..Len(tagContent) : tagContent[k] = "/")
    => LET r == tagOut[1]
           rest == FromFirstSlash(tagContent)
       IN  /\ Len(r) >= Len(rest)
           /\ SubSeq(r, Len(r) - Len(rest) + 1, Len(r)) = rest
           /\ \A k \in 1..(Len(r) - Len(rest)) : r[k] # "/"

\* C3 witness: "A/A" lowercased with apply-to-nested off gives "a/A"
C3_Witness ==
    /\ tagOut = << <<"a", "/", "A">> >>
    /\ tagContent = <<"A", "/", "A">>
    /\ ~settings.applyToNestedTags
    /\ settings.caseStrategy = "lowercase"

-----------------------------------------------------------------------------
(* Claims about processFile *)

\* Both steps of the file at index i ran and neither failed
FileProcessed(i) ==
    /\ \E k \in 1..Len(rmwLog) :
          rmwLog[k].doc = i /\ rmwLog[k].step = "meta" /\ rmwLog[k].ok
    /\ \E k \in 1..Len(rmwLog) :
          rmwLog[k].doc = i /\ rmwLog[k].step = "text" /\ rmwLog[k].ok

\* An inline tag starts at h: a '#' at the start of the text or right after
\* whitespace, followed by a tag-body character
IsTagStart(data, h) ==
    /\ data[h] = "#"
    /\ h = 1 \/ IsWhitespace(data[h - 1])
    /\ h < Len(data) /\ IsTagBodyChar(data[h + 1])

\* The body of the inline tag that starts at h: the longest run of
\* tag-body characters after the '#'
BodyOfTagAt(data, h) ==
    LET e == CHOOSE e \in (h + 1)..Len(data) :
                 /\ \A k \in (h + 1)..e : IsTagBodyChar(data[k])
                 /\ e = Len(data) \/ ~IsTagBodyChar(data[e + 1])
    IN  SubSeq(data, h + 1, e)

\* Index k lies in the body of an inline tag
InsideTagBody(data, k) ==
    \E h \in 1..(k - 1) :
        IsTagStart(data, h) /\ \A j \in (h + 1)..k : IsTagBodyChar(data[j])

\* The text as the claim describes it, from index k on: a tag's '#' stays and
\* its body becomes transformTag(body); every other character stays
RECURSIVE ClaimedTextFrom(_, _, _)
ClaimedTextFrom(data, k, cfg) ==
    IF k > Len(data) THEN <<>>
    ELSE (IF IsTagStart(data, k)
          THEN <<"#">> \o convertTagContent(BodyOfTagAt(data, k), cfg)
          ELSE IF InsideTagBody(data, k) THEN <<>>
          ELSE <<data[k]>>)
         \o ClaimedTextFrom(data, k + 1, cfg)

HasHash(t) == t # <<>> /\ t[1] = "#"

\* A metadata field as the claim describes it: same shape, and every string
\* is its original with the body transformed and the '#' kept as it was
FieldNormalized(old, new, cfg) ==
    /\ new.kind = old.kind
    /\ Len(new.items) = Len(old.items)
    /\ \A k \in 1..Len(old.items) :
          IF old.items[k].type = "string"
          THEN LET t == old.items[k].val
                   u == new.items[k].val
                   body == IF HasHash(t) THEN Tail(t) ELSE t
               IN  /\ new.items[k].type = "string"
                   /\ HasHash(u) <=> HasHash(t)
                   /\ (IF HasHash(u) THEN Tail(u) ELSE u) = convertTagContent(body, cfg)
          ELSE new.items[k] = old.items[k]

\* C4: after processFile on a document, every string of the metadata fields
\* tags and tag equals its original with the body replaced by
\* transformTag(body) and the leading '#' present exactly when it was
\* before (order kept), and the raw text equals the original with the body
\* of every inline tag replaced by transformTag(body), every character
\* outside the inline tags unchanged.
C4_ProcessFile ==
    \A i \in 1..Len(docs) :
        FileProcessed(i) =>
            /\ FieldNormalized(vault0[i].tags, docs[i].tags, settings)
            /\ FieldNormalized(vault0[i].tag, docs[i].tag, settings)
            /\ docs[i].text = ClaimedTextFrom(vault0[i].text, 1, settings)

\* C4 witness: " #A!" with tags ["#A"] was lowercased to " #a!" and ["#a"]
C4_Witness ==
    /\ Len(docs) = 1
    /\ FileProcessed(1)
    /\ vault0[1].text = <<" ", "#", "A", "!">>
    /\ docs[1].text = <<" ", "#", "a", "!">>
    /\ vault0[1].tags = ArrayValue(<<StrItem(<<"#", "A">>)>>)
    /\ docs[1].tags = ArrayValue(<<StrItem(<<"#", "a">>)>>)

-----------------------------------------------------------------------------
(* Claims about the rename path *)

\* The step of file i ran in this run and did not fail
StepDone(i, step) ==
    \E k \in 1..Len(rmwLog) :
        rmwLog[k].doc = i /\ rmwLog[k].step = step /\ rmwLog[k].ok

\* A metadata field as the rename rule describes it
FieldRenamed(old, new, search, replace) ==
    /\ new.kind = old.kind
    /\ Len(new.items) = Len(old.items)
    /\ \A k \in 1..Len(old.items) :
          IF old.items[k].type = "string"
          THEN LET t == old.items[k].val
                   u == new.items[k].val
                   raw == IF HasHash(t) THEN Tail(t) ELSE t
                   marker == IF HasHash(t) THEN <<"#">> ELSE <<>>
                   n == Len(search)
               IN  /\ new.items[k].type = "string"
                   /\ IF raw = search
                      THEN u = marker \o replace
                      ELSE IF /\ Len(raw) > n
                              /\ SubSeq(raw, 1, n) = search
                              /\ raw[n + 1] = "/"
                      THEN u = marker \o replace \o SubSeq(raw, n + 1, Len(raw))
                      ELSE u = t
          ELSE new.items[k] = old.items[k]

\* C5: in the rename path every string t of the metadata fields tags and
\* tag, with raw = t minus one leading '#', becomes replace when raw equals
\* search, replace followed by the rest of raw when raw starts with
\* search + '/', and stays t otherwise; the '#' is kept exactly when t had
\* one and the order of a sequence is unchanged.
C5_RenameMetadata ==
    \A i \in 1..Len(docs) :
        (run.op = "rename" /\ StepDone(i, "meta")) =>
            /\ FieldRenamed(vault0[i].tags, docs[i].tags, run.search, run.replace)
            /\ FieldRenamed(vault0[i].tag, docs[i].tag, run.search, run.replace)

\* C5 witness: tags ["A/A", "#A"] renamed from A to B are ["B/A", "#B"]
C5_Witness ==
    /\ run.op = "rename" /\ Len(docs) = 1 /\ StepDone(1, "meta")
    /\ run.search = <<"A">> /\ run.replace = <<"B">>
    /\ vault0[1].tags = ArrayValue(<<StrItem(<<"A", "/", "A">>), StrItem(<<"#", "A">>)>>)
    /\ docs[1].tags = ArrayValue(<<StrItem(<<"B", "/", "A">>), StrItem(<<"#", "B">>)>>)

\* The text as the rename claim describes it, from index k on: an inline tag
\* whose body is search, or starts with search + '/', has the search part
\* replaced; every other character stays
RECURSIVE ClaimedRenameFrom(_, _, _, _)
ClaimedRenameFrom(data, k, search, replace) ==
    IF k > Len(data) THEN <<>>
    ELSE (IF IsTagStart(data, k)
          THEN LET b == BodyOfTagAt(data, k)
                   n == Len(search)
               IN  IF \/ b = search
                      \/ (Len(b) > n /\ SubSeq(b, 1, n) = search /\ b[n + 1] = "/")
                   THEN <<"#">> \o replace \o SubSeq(b, n + 1, Len(b))
                   ELSE <<"#">> \o b
          ELSE IF InsideTagBody(data, k) THEN <<>>
          ELSE <<data[k]>>)
         \o ClaimedRenameFrom(data, k + 1, search, replace)

-----------------------------------------------------------------------------
(* Claims about the drivers *)

\* C7: when renameTag is called with an old or a new tag that is empty after
\* one leading '#' is stripped, the operation is rejected before any
\* document is touched: no read-modify-write is made, every document is as
\* it was, and the only effect is the advisory notice.
C7_RenameRejected ==
    (/\ run.op = "rename" /\ run.pc # "notCalled"
     /\ run.search = <<>> \/ run.replace = <<>>)
    => /\ run.pc = "rejected"
       /\ rmwLog = <<>>
       /\ docs = vault0
       /\ notices = <<NoticeOf("Please provide both old and new tags.", 0)>>

\* C7 witness: renameTag('#', 'B') on a vault of two files was rejected
C7_Witness ==
    /\ run.op = "rename" /\ run.pc = "rejected"
    /\ run.search = <<>> /\ run.replace = <<"B">>
    /\ Len(docs) = 2
    /\ notices # <<>>

\* The documents of the log's entries for one step, in log order
RECURSIVE LoggedDocs(_, _)
LoggedDocs(log, step) ==
    IF log = <<>> THEN <<>>
    ELSE (IF Head(log).step = step THEN <<Head(log).doc>> ELSE <<>>)
         \o LoggedDocs(Tail(log), step)

\* How many documents had both steps finish without failure
FinishedFiles == Cardinality({i \in 1..Len(docs) : FileProcessed(i)})

\* When a bulk normalization run is over: every document was attempted
\* exactly once in list order, and the completion notice reports the number
\* of documents whose two steps finished without failure
ConversionTally ==
    (run.op = "convert" /\ run.pc = "done") =>
        /\ LoggedDocs(rmwLog, "meta") = [i \in 1..Len(docs) |-> i]
        /\ \A i \in 1..Len(docs) :
              Cardinality({k \in 1..Len(rmwLog) :
                              rmwLog[k].doc = i /\ rmwLog[k].step = "text"})
              = (IF StepDone(i, "meta") THEN 1 ELSE 0)
        /\ run.processedCount = FinishedFiles
        /\ notices[Len(notices)] = NoticeOf("Completed. Processed", FinishedFiles)

\* C8: in a bulk normalization run a failure on one document does not abort
\* the run: every document is attempted exactly once in list order, the run
\* always reaches its completion notice, and the count it reports is the
\* number of documents whose processing finished without failure.
C8_ConversionCompletes ==
    /\ []ConversionTally
    /\ (run.op = "convert") ~> (run.op = "convert" /\ run.pc = "done")

\* C8 witness: a run over two files is complete, the first one failed in its
\* text step, the second one was processed, and the notice says 1
C8_Witness ==
    /\ run.op = "convert" /\ run.pc = "done"
    /\ Len(docs) = 2
    /\ StepDone(1, "meta") /\ ~StepDone(1, "text")
    /\ FileProcessed(2)
    /\ notices[Len(notices)] = NoticeOf("Completed. Processed", 1)

-----------------------------------------------------------------------------
(* Claims about the settings *)

\* C9: when settings are loaded from a blob that holds the legacy boolean
\* snakeCase, the separator strategy becomes 'snake' for true and 'preserve'
\* for false, the blob is rewritten, and after loadSettings completes the
\* persisted blob no longer contains the snakeCase field.
C9_LegacyFieldRemoved ==
    (run.op = "load" /\ run.pc = "done" /\ run.legacy # "absent") =>
        /\ settings.separatorStrategy =
              (IF run.legacy = "true" THEN "snake" ELSE "preserve")
        /\ ~persisted.isNull
        /\ persisted.missing = {}
        /\ persisted.vals.snakeCase = "absent"

-----------------------------------------------------------------------------
(* Claims about the tag listing *)

\* generateTagList wrote the listing in this run
ListingGenerated ==
    /\ run.op = "list" /\ run.pc = "done"
    /\ notices # <<>>
    /\ notices[Len(notices)].msg \in {"Created", "Updated"}

\* The tag on a line of the listing
TagOfLine(line) == SubSeq(line, 3, Len(line))

\* One line per distinct tag: no tag missing, none twice, nothing else
OneLinePerTag ==
    /\ \A k \in 1..Len(listing.lines) :
          SubSeq(listing.lines[k], 1, 2) = <<"-", " ">>
    /\ {TagOfLine(listing.lines[k]) : k \in 1..Len(listing.lines)}
         = {tagCache.keys[k] : k \in 1..Len(tagCache.keys)}
    /\ Len(listing.lines) = Cardinality({tagCache.keys[k] : k \in 1..Len(tagCache.keys)})

\* a comes before b in lexicographic order by code point
RECURSIVE CodePointBefore(_, _)
CodePointBefore(a, b) ==
    IF b = <<>> THEN FALSE
    ELSE IF a = <<>> THEN TRUE
    ELSE IF CodeUnit(Head(a)) # CodeUnit(Head(b))
    THEN CodeUnit(Head(a)) < CodeUnit(Head(b))
    ELSE CodePointBefore(Tail(a), Tail(b))

\* C10 as stated: the generated listing has one line per distinct tag, no
\* duplicates, no tag missing, in lexicographic order by code point (so '#B'
\* comes before '#a').
C10_CodePointOrder ==
    ListingGenerated =>
        /\ OneLinePerTag
        /\ \A j, k \in 1..Len(listing.lines) :
              j < k => CodePointBefore(TagOfLine(listing.lines[j]),
                                       TagOfLine(listing.lines[k]))

\* a comes before b in the host's collation: the letters decide whatever
\* their case, and case only orders tags that are otherwise equal
RECURSIVE CollatesBefore(_, _, _)
CollatesBefore(a, b, caseBlind) ==
    IF b = <<>> THEN FALSE
    ELSE IF a = <<>> THEN TRUE
    ELSE LET wa == IF caseBlind THEN PrimaryWeight(Head(a)) ELSE CaseWeight(Head(a), locale)
             wb == IF caseBlind THEN PrimaryWeight(Head(b)) ELSE CaseWeight(Head(b), locale)
         IN  IF wa # wb THEN wa < wb
             ELSE CollatesBefore(Tail(a), Tail(b), caseBlind)

SamePrimary(a, b) ==
    /\ Len(a) = Len(b)
    /\ \A k \in 1..Len(a) : PrimaryWeight(a[k]) = PrimaryWeight(b[k])

\* C10 as amended: the generated listing has one line per distinct tag, no
\* duplicates, no tag missing, in the order of localeCompare: tags are
\* ordered by their letters whatever the case, and two tags that differ
\* only in case are ordered by the host's case rule (so '#a' comes before
\* '#B').
C10_LocaleOrder ==
    ListingGenerated =>
        /\ OneLinePerTag
        /\ \A j, k \in 1..Len(listing.lines) :
              j < k =>
                LET a == TagOfLine(listing.lines[j])
                    b == TagOfLine(listing.lines[k])
                IN  \/ CollatesBefore(a, b, TRUE)
                    \/ SamePrimary(a, b) /\ CollatesBefore(a, b, FALSE)

\* C10 witness: the listing of the tags '#B', '#a' is "- #a", "- #B"
C10_Witness ==
    /\ ListingGenerated
    /\ tagCache.keys = << <<"#", "B">>, <<"#", "a">> >>
    /\ listing.lines = << <<"-", " ", "#", "a">>, <<"-", " ", "#", "B">> >>

-----------------------------------------------------------------------------
(* Claims about operations that overlap *)

\* The configurations read by the steps of the run whose callback ran.  In
\* every fixture file such a step finds a tag and calls convertTagContent.
ConfigurationsSeen ==
    {rmwLog[k].cfg : k \in {j \in 1..Len(rmwLog) : rmwLog[j].ok}}

\* C11: from the start of a bulk normalization run to its completion
\* notice, every transformation call of the run (every document, metadata
\* step and text step) sees the same configuration value, also when a
\* settings-change event is delivered while the run is suspended at an await.
C11_SameConfiguration ==
    run.op = "convert" => Cardinality(ConfigurationsSeen) <= 1

\* The documents whose metadata or raw text differs from before the run
AlteredDocs == {i \in 1..Len(docs) : docs[i] # vault0[i]}

\* C12: in a rename run a document counts as modified exactly when the
\* metadata step or the text step altered it: the number reported at the end
\* of renameTag equals the number of documents whose metadata or raw text
\* after the run differs from before the run, for every search and replace,
\* including replace equal to search.
C12_RenameCount ==
    (run.op = "rename" /\ run.pc = "done") =>
        /\ run.processedCount = Cardinality(AlteredDocs)
        /\ notices[Len(notices)] = NoticeOf("Renamed in", Cardinality(AlteredDocs))

-----------------------------------------------------------------------------
(* Claims about settings across reloads *)

\* C13: a separator strategy chosen by the user and saved survives a reload:
\* for any persisted blob, after loadSettings, a change of separatorStrategy
\* to a value v followed by saveSettings, and loadSettings again, the
\* separator strategy in effect is v (the legacy-field migration never
\* overrides a later saved choice).
C13_ChoiceSurvivesReload ==
    (run.op = "load" /\ run.pc = "done" /\ run.chosen # "none") =>
        settings.separatorStrategy = run.chosen

=============================================================================
